---- MODULE Spec2Model ----
(***************************************************************************)
(* A model of the cobalt_tools client library:                             *)
(*   - the request model (MediaRequestData, DownloadMode),                 *)
(*   - the response model (the untagged enum Response and get_status),     *)
(*   - the protocol client (Client::new, status, services, get_media),     *)
(*   - the download streamer (Client::download).                           *)
(* JSON documents are modelled as tagged values, serde's derived           *)
(* (de)serializers as operators over them.                                 *)
(***************************************************************************)
EXTENDS Integers, Sequences, FiniteSets, TLC

VARIABLES env, client, calls, dest, dl, pure

vars == <<env, client, calls, dest, dl, pure>>

(***************************************************************************)
(* Option<T> and Result<T, E>                                              *)
(***************************************************************************)
None == [some |-> FALSE]
Some(v) == [some |-> TRUE, val |-> v]
unwrap_or(opt, default) == IF opt.some THEN opt.val ELSE default

Ok(v) == [ok |-> TRUE, val |-> v]
Err(e) == [ok |-> FALSE, err |-> e]

\* The destination path: no file, or a file and its bytes.
NoFile == [exists |-> FALSE, bytes |-> <<>>]
File(bytes) == [exists |-> TRUE, bytes |-> bytes]

(***************************************************************************)
(* JSON values.  An object is a function from its keys to JSON values.     *)
(* JInvalid is a body that is not JSON at all.                             *)
(***************************************************************************)
JStr(s) == [t |-> "str", s |-> s]
JNum(n) == [t |-> "num", n |-> n]
JBool(b) == [t |-> "bool", b |-> b]
JNull == [t |-> "null"]
JObj(f) == [t |-> "obj", f |-> f]
JArr(items) == [t |-> "arr", items |-> items]
JInvalid == [t |-> "invalid"]
Absent == [t |-> "absent"]

\* The value of key k in object o, Absent when the key is missing.
Field(o, k) == IF k \in DOMAIN o.f THEN o.f[k] ELSE Absent

\* The object holding the keys of `opts` whose value is not Absent.
MkObj(opts) ==
    JObj([k \in {x \in DOMAIN opts : opts[x] # Absent} |-> opts[k]])

(***************************************************************************)
(* serde deserializers of the primitive field types.  A missing key is an  *)
(* error for String, u64 and Vec, and None for Option.                     *)
(***************************************************************************)
DeString(v) == IF v.t = "str" THEN Ok(v.s) ELSE Err("invalid type")

DeU64(v) == IF v.t = "num" /\ v.n >= 0 THEN Ok(v.n) ELSE Err("invalid type")

DeOptString(v) ==
    IF v.t \in {"absent", "null"} THEN Ok(None)
    ELSE IF v.t = "str" THEN Ok(Some(v.s))
    ELSE Err("invalid type")

DeOptU64(v) ==
    IF v.t \in {"absent", "null"} THEN Ok(None)
    ELSE IF v.t = "num" /\ v.n >= 0 THEN Ok(Some(v.n))
    ELSE Err("invalid type")

(***************************************************************************)
(* Response model (structs/media_response.rs).  Each derived Deserialize   *)
(* reads the keys of its struct from an object and ignores the others.     *)
(***************************************************************************)
DeErrorContext(v) ==
    IF v.t # "obj" THEN Err("invalid type")
    ELSE LET service == DeOptString(Field(v, "service"))
             limit == DeOptU64(Field(v, "limit"))
         IN  IF service.ok /\ limit.ok
             THEN Ok([service |-> service.val, limit |-> limit.val])
             ELSE Err("invalid type")

DeOptErrorContext(v) ==
    IF v.t \in {"absent", "null"} THEN Ok(None)
    ELSE LET c == DeErrorContext(v)
         IN  IF c.ok THEN Ok(Some(c.val)) ELSE c

DeErrorDetails(v) ==
    IF v.t # "obj" THEN Err("invalid type")
    ELSE LET code == DeString(Field(v, "code"))
             context == DeOptErrorContext(Field(v, "context"))
         IN  IF code.ok /\ context.ok
             THEN Ok([code |-> code.val, context |-> context.val])
             ELSE Err("missing field or invalid type")

DeErrorResponse(v) ==
    IF v.t # "obj" THEN Err("invalid type")
    ELSE LET status == DeString(Field(v, "status"))
             error == DeErrorDetails(Field(v, "error"))
         IN  IF status.ok /\ error.ok
             THEN Ok([status |-> status.val, error |-> error.val])
             ELSE Err("missing field or invalid type")

DeMediaItem(v) ==
    IF v.t # "obj" THEN Err("invalid type")
    ELSE LET type == DeString(Field(v, "type"))
             url == DeString(Field(v, "url"))
             thumb == DeOptString(Field(v, "thumb"))
         IN  IF type.ok /\ url.ok /\ thumb.ok
             THEN Ok([type |-> type.val, url |-> url.val, thumb |-> thumb.val])
             ELSE Err("missing field or invalid type")

\* Vec<MediaItem>: the items in the order of the array.
DeVecMediaItem(v) ==
    IF v.t # "arr" THEN Err("invalid type")
    ELSE IF \A i \in DOMAIN v.items : DeMediaItem(v.items[i]).ok
         THEN Ok([i \in DOMAIN v.items |-> DeMediaItem(v.items[i]).val])
         ELSE Err("missing field or invalid type")

DePickerResponse(v) ==
    IF v.t # "obj" THEN Err("invalid type")
    ELSE LET status == DeString(Field(v, "status"))
             audio == DeOptString(Field(v, "audio"))
             audio_filename == DeOptString(Field(v, "audio_filename"))
             picker == DeVecMediaItem(Field(v, "picker"))
         IN  IF status.ok /\ audio.ok /\ audio_filename.ok /\ picker.ok
             THEN Ok([status |-> status.val, audio |-> audio.val,
                      audio_filename |-> audio_filename.val,
                      picker |-> picker.val])
             ELSE Err("missing field or invalid type")

DeRedirectResponse(v) ==
    IF v.t # "obj" THEN Err("invalid type")
    ELSE LET status == DeString(Field(v, "status"))
             url == DeString(Field(v, "url"))
             filename == DeString(Field(v, "filename"))
         IN  IF status.ok /\ url.ok /\ filename.ok
             THEN Ok([status |-> status.val, url |-> url.val,
                      filename |-> filename.val])
             ELSE Err("missing field or invalid type")

\* The decoder with Redirect declared before Picker.
DeResponseRedirectFirst(v) ==
    LET e == DeErrorResponse(v)
        p == DePickerResponse(v)
        r == DeRedirectResponse(v)
    IN  IF e.ok THEN Ok([variant |-> "Error", data |-> e.val])
        ELSE IF r.ok THEN Ok([variant |-> "Redirect", data |-> r.val])
        ELSE IF p.ok THEN Ok([variant |-> "Picker", data |-> p.val])
        ELSE Err("data did not match any variant of untagged enum Response")

\* #[serde(untagged)] enum Response: the variants are tried in declaration
\* order and the first that deserializes is the result.
DeResponse(v) ==
    LET e == DeErrorResponse(v)
        p == DePickerResponse(v)
        r == DeRedirectResponse(v)
    IN  IF e.ok THEN Ok([variant |-> "Error", data |-> e.val])
        ELSE IF p.ok THEN Ok([variant |-> "Picker", data |-> p.val])
        ELSE IF r.ok THEN Ok([variant |-> "Redirect", data |-> r.val])
        ELSE Err("data did not match any variant of untagged enum Response")

\* Response::get_status
get_status(resp) ==
    CASE resp.variant = "Error" -> "Status::Error"
      [] resp.variant = "Picker" -> "Status::Picker"
      [] resp.variant = "Redirect" -> "Status::Redirect"

\* reqwest's Response::json on a body that was read: parse, then deserialize.
ParseResponse(body) ==
    IF body.t = "invalid" THEN Err("expected value") ELSE DeResponse(body)

(***************************************************************************)
(* Status model (structs/status.rs)                                        *)
(***************************************************************************)
DeVecString(v) ==
    IF v.t # "arr" THEN Err("invalid type")
    ELSE IF \A i \in DOMAIN v.items : DeString(v.items[i]).ok
         THEN Ok([i \in DOMAIN v.items |-> DeString(v.items[i]).val])
         ELSE Err("invalid type")

\* #[serde(rename_all = "camelCase")] struct Cobalt
DeCobalt(v) ==
    IF v.t # "obj" THEN Err("invalid type")
    ELSE LET version == DeString(Field(v, "version"))
             url == DeString(Field(v, "url"))
             start_time == DeString(Field(v, "startTime"))
             duration_limit == DeU64(Field(v, "durationLimit"))
             services == DeVecString(Field(v, "services"))
         IN  IF version.ok /\ url.ok /\ start_time.ok /\ duration_limit.ok
                /\ services.ok
             THEN Ok([version |-> version.val, url |-> url.val,
                      start_time |-> start_time.val,
                      duration_limit |-> duration_limit.val,
                      services |-> services.val])
             ELSE Err("missing field or invalid type")

DeGit(v) ==
    IF v.t # "obj" THEN Err("invalid type")
    ELSE LET branch == DeString(Field(v, "branch"))
             commit == DeString(Field(v, "commit"))
             remote == DeString(Field(v, "remote"))
         IN  IF branch.ok /\ commit.ok /\ remote.ok
             THEN Ok([branch |-> branch.val, commit |-> commit.val,
                      remote |-> remote.val])
             ELSE Err("missing field or invalid type")

DeStatusResponse(v) ==
    IF v.t = "invalid" THEN Err("expected value")
    ELSE IF v.t # "obj" THEN Err("invalid type")
    ELSE LET cobalt == DeCobalt(Field(v, "cobalt"))
             git == DeGit(Field(v, "git"))
         IN  IF cobalt.ok /\ git.ok
             THEN Ok([cobalt |-> cobalt.val, git |-> git.val])
             ELSE Err("missing field or invalid type")

(***************************************************************************)
(* Request model (structs/media_request.rs)                                *)
(***************************************************************************)
\* The Option fields of MediaRequestData, with their serde names.
OptFields ==
    [video_quality |-> "videoQuality", audio_format |-> "audioFormat",
     audio_bitrate |-> "audioBitrate", download_mode |-> "downloadMode",
     youtube_video_codec |-> "youtubeVideoCodec",
     youtube_dub_lang |-> "youtubeDubLang", always_proxy |-> "alwaysProxy",
     disable_metadata |-> "disableMetadata",
     tiktok_full_audio |-> "tiktokFullAudio", tiktok_h265 |-> "tiktokH265",
     twitter_gif |-> "twitterGif", youtube_hls |-> "youtubeHLS"]

\* The fields that are not Option: url and filename_style.
PlainFields == [url |-> "url", filename_style |-> "filenameStyle"]

WireName == OptFields @@ PlainFields

BoolFields ==
    {"always_proxy", "disable_metadata", "tiktok_full_audio", "tiktok_h265",
     "twitter_gif", "youtube_hls"}

\* Rust values of the request's fields: &str and bool.
RStr(s) == [ty |-> "str", s |-> s]
RBool(b) == [ty |-> "bool", b |-> b]

\* #[derive(Default)]: "" for &str, None for Option.
DefaultRequest ==
    [f \in DOMAIN WireName |->
        IF f \in DOMAIN PlainFields THEN RStr("") ELSE None]

\* A struct literal naming the fields of `given` and ending in
\* ..Default::default().
MediaRequestData(given) ==
    [f \in DOMAIN WireName |->
        IF f \in DOMAIN given
        THEN IF f \in DOMAIN PlainFields THEN given[f] ELSE Some(given[f])
        ELSE DefaultRequest[f]]

\* serde_json's encoding of a &str or a bool.
ToJson(x) == IF x.ty = "bool" THEN JBool(x.b) ELSE JStr(x.s)

\* #[derive(Serialize)] with the renames: url and filenameStyle are always
\* written, an Option field is skipped when it is None
\* (skip_serializing_if = "Option::is_none").
Serialize(d) ==
    LET kept == {f \in DOMAIN WireName :
                    f \in DOMAIN PlainFields \/ d[f].some}
        rust(k) == CHOOSE f \in kept : WireName[f] = k
    IN  JObj([k \in {WireName[f] : f \in kept} |->
                IF rust(k) \in DOMAIN PlainFields
                THEN ToJson(d[rust(k)])
                ELSE ToJson(d[rust(k)].val)])

\* DownloadMode::to_string
to_string(m) ==
    CASE m = "DownloadMode::Auto" -> "auto"
      [] m = "DownloadMode::Audio" -> "audio"
      [] m = "DownloadMode::Mute" -> "mute"

\* from_str matching the first letter in either case.
from_str_ignoring_case(input) ==
    CASE input \in {"auto", "Auto"} -> Some("DownloadMode::Auto")
      [] input \in {"audio", "Audio"} -> Some("DownloadMode::Audio")
      [] input \in {"mute", "Mute"} -> Some("DownloadMode::Mute")
      [] OTHER -> None

\* DownloadMode::from_str
from_str(input) ==
    CASE input = "auto" -> Some("DownloadMode::Auto")
      [] input = "audio" -> Some("DownloadMode::Audio")
      [] input = "mute" -> Some("DownloadMode::Mute")
      [] OTHER -> None

(***************************************************************************)
(* Inputs of the pure functions                                            *)
(***************************************************************************)
\* At most this many fields besides url are named in a struct literal.
MaxGiven == 2

FieldValues(f) ==
    IF f \in BoolFields THEN {RBool(TRUE), RBool(FALSE)}
    ELSE IF f = "url" THEN {RStr("https://example.com/v")}
    ELSE IF f = "filename_style" THEN {RStr("basic")}
    ELSE {RStr("x")}

\* The struct literals: url and up to MaxGiven other fields, each with a
\* value of its type.
Givens ==
    UNION { {g \in [S \cup {"url"} ->
                      UNION {FieldValues(f) : f \in S \cup {"url"}}] :
                \A f \in DOMAIN g : g[f] \in FieldValues(f)} :
            S \in {T \in SUBSET (DOMAIN WireName \ {"url"}) :
                      Cardinality(T) <= MaxGiven} }

ItemA == MkObj([type |-> JStr("photo"), url |-> JStr("http://m/a")])
ItemB ==
    MkObj([type |-> JStr("video"), url |-> JStr("http://m/b"),
           thumb |-> JStr("http://m/t")])
ItemNoUrl == MkObj([type |-> JStr("photo")])

StatusOpts == {Absent, JStr("error"), JStr("redirect"), JNum(0)}
ErrorOpts ==
    {Absent, JStr("oops"), MkObj([code |-> Absent]),
     MkObj([code |-> JStr("error.api.link.invalid")]),
     MkObj([code |-> JNum(7)]),
     MkObj([code |-> JStr("error.api.fetch.fail"), context |-> JNull]),
     MkObj([code |-> JStr("error.api.content.too_long"),
            context |-> MkObj([service |-> JStr("youtube"),
                               limit |-> JNum(10800)])]),
     MkObj([code |-> JStr("error.api.content.too_long"),
            context |-> MkObj([limit |-> JStr("long")])]),
     MkObj([code |-> JStr("error.api.fetch.fail"), context |-> JStr("ctx")])}
PickerOpts ==
    {Absent, JStr("none"), JArr(<<>>), JArr(<<ItemA>>), JArr(<<ItemA, ItemB>>),
     JArr(<<ItemB, ItemA>>), JArr(<<ItemA, ItemNoUrl>>)}
UrlOpts == {Absent, JStr("http://m/file"), JNum(1)}
FilenameOpts == {Absent, JStr("file.mp4"), JNull}
AudioOpts == {Absent, JNull, JStr("http://m/audio"), JNum(2)}

\* Response bodies: the JSON objects over the keys the variants read, a JSON
\* scalar, and a body that is not JSON.
Bodies ==
    { MkObj([status |-> s, error |-> e, picker |-> p, url |-> u,
             filename |-> f, audio |-> a]) :
        s \in StatusOpts, e \in ErrorOpts, p \in PickerOpts, u \in UrlOpts,
        f \in FilenameOpts, a \in AudioOpts }
    \cup {JStr("redirect"), JNull, JInvalid}

DownloadModes == {"DownloadMode::Auto", "DownloadMode::Audio", "DownloadMode::Mute"}
InputStrings ==
    {"auto", "audio", "mute", "", "Auto", "AUDIO", "Mute", "auto ", "video"}

(***************************************************************************)
(* The pure functions applied to their inputs: the initial state holds a   *)
(* function and an input, one step applies the function.                   *)
(***************************************************************************)
PureIdle == [pc |-> "idle"]

PureInput(fn, arg) == [pc |-> "input", fn |-> fn, arg |-> arg]

PureInputs ==
    {PureInput("serialize", g) : g \in Givens}
    \cup {PureInput("parse", b) : b \in Bodies}
    \cup {PureInput("to_string", m) : m \in DownloadModes}
    \cup {PureInput("from_str", i) : i \in InputStrings}

\* MediaRequestData { .. } followed by serde_json::to_string
ApplySerialize ==
    /\ pure.pc = "input" /\ pure.fn = "serialize"
    /\ pure' = [pc |-> "done", fn |-> "serialize", arg |-> pure.arg,
                out |-> Serialize(MediaRequestData(pure.arg))]
    /\ UNCHANGED <<env, client, calls, dest, dl>>

\* Response::deserialize followed by get_status on the decoded value
ApplyParse ==
    /\ pure.pc = "input" /\ pure.fn = "parse"
    /\ LET r == ParseResponse(pure.arg)
       IN  pure' = [pc |-> "done", fn |-> "parse", arg |-> pure.arg, out |-> r,
                    status |-> IF r.ok THEN get_status(r.val) ELSE "none"]
    /\ UNCHANGED <<env, client, calls, dest, dl>>

ApplyToString ==
    /\ pure.pc = "input" /\ pure.fn = "to_string"
    /\ pure' = [pc |-> "done", fn |-> "to_string", arg |-> pure.arg,
                out |-> to_string(pure.arg)]
    /\ UNCHANGED <<env, client, calls, dest, dl>>

ApplyFromStr ==
    /\ pure.pc = "input" /\ pure.fn = "from_str"
    /\ pure' = [pc |-> "done", fn |-> "from_str", arg |-> pure.arg,
                out |-> from_str(pure.arg), of |-> None]
    /\ UNCHANGED <<env, client, calls, dest, dl>>

\* from_str applied to the string to_string has just returned.
ApplyFromStrToString ==
    /\ pure.pc = "done" /\ pure.fn = "to_string"
    /\ pure' = [pc |-> "done", fn |-> "from_str", arg |-> pure.out,
                out |-> from_str(pure.out), of |-> Some(pure.arg)]
    /\ UNCHANGED <<env, client, calls, dest, dl>>

InitPure ==
    /\ pure \in PureInputs
    /\ env = [API_KEY |-> None, INSTANCE_URI |-> None]
    /\ client = [state |-> "uninit"]
    /\ calls = [c \in {} |-> [pc |-> "idle"]]
    /\ dest = NoFile
    /\ dl = [pc |-> "idle"]

NextPure ==
    \/ ApplySerialize
    \/ ApplyParse
    \/ ApplyToString
    \/ ApplyFromStr
    \/ ApplyFromStrToString

SpecPure == InitPure /\ [][NextPure]_vars

(***************************************************************************)
(* Properties of the request and response models (under SpecPure)          *)
(***************************************************************************)
Applied(fn) == pure.pc = "done" /\ pure.fn = fn

\* C3: the set of fields in the serialized payload equals the set of fields
\* the caller explicitly set; with only url set, the payload holds exactly
\* the url field.
C3_PayloadHoldsExactlyTheGivenFields ==
    Applied("serialize") =>
        DOMAIN pure.out.f = {WireName[f] : f \in DOMAIN pure.arg}

\* Key k of body b is present and carries a value of JSON type ty.
Has(b, k, ty) == b.t = "obj" /\ k \in DOMAIN b.f /\ b.f[k].t = ty

Present(b, k) == b.t = "obj" /\ k \in DOMAIN b.f

\* An optional string key: missing, null or a string.
OptStringOk(o, k) == Field(o, k).t \in {"absent", "null", "str"}

ContextOk(c) ==
    \/ c.t \in {"absent", "null"}
    \/ /\ c.t = "obj"
       /\ OptStringOk(c, "service")
       /\ Field(c, "limit").t \in {"absent", "null", "num"}

ItemOk(i) ==
    i.t = "obj" /\ Has(i, "type", "str") /\ Has(i, "url", "str")
    /\ OptStringOk(i, "thumb")

\* Every key of the body that some variant reads carries a value of the type
\* that variant declares for it.
WellTyped(b) ==
    /\ b.t = "obj"
    /\ Present(b, "status") => Has(b, "status", "str")
    /\ Present(b, "url") => Has(b, "url", "str")
    /\ Present(b, "filename") => Has(b, "filename", "str")
    /\ OptStringOk(b, "audio")
    /\ OptStringOk(b, "audio_filename")
    /\ Present(b, "error") =>
          /\ Has(b, "error", "obj")
          /\ Present(b.f.error, "code") => Has(b.f.error, "code", "str")
          /\ ContextOk(Field(b.f.error, "context"))
    /\ Present(b, "picker") =>
          /\ Has(b, "picker", "arr")
          /\ \A n \in DOMAIN b.f.picker.items : ItemOk(b.f.picker.items[n])

\* The required fields of each variant.
RequiredOfError(b) ==
    Present(b, "status") /\ Present(b, "error") /\ b.f.error.t = "obj"
    /\ Present(b.f.error, "code")
RequiredOfPicker(b) == Present(b, "status") /\ Present(b, "picker")
RequiredOfRedirect(b) ==
    Present(b, "status") /\ Present(b, "url") /\ Present(b, "filename")

FirstVariantPresent(b) ==
    IF RequiredOfError(b) THEN "Error"
    ELSE IF RequiredOfPicker(b) THEN "Picker"
    ELSE IF RequiredOfRedirect(b) THEN "Redirect"
    ELSE "none"

C9_FromStrInvertsToString ==
    Applied("from_str") =>
        /\ pure.of.some => pure.out = Some(pure.of.val)
        /\ pure.arg \notin {"auto", "audio", "mute"} => pure.out = None

C9_Witness ==
    /\ Applied("from_str")
    /\ pure.of = Some("DownloadMode::Mute")
    /\ pure.out = Some("DownloadMode::Mute")

(***************************************************************************)
(* Protocol client (api/client.rs)                                         *)
(***************************************************************************)
\* The number of tasks calling the shared client concurrently.
NumCallers == 2

Callers == 1 .. NumCallers

\* Client::new, called once by the Lazy initializer of CLIENT_INSTANCE: each
\* env::var(..).expect(..) panics when the variable is not set.
New(e) ==
    IF ~e.API_KEY.some
    THEN [state |-> "panicked", msg |-> "Expected API_KEY in the environment"]
    ELSE IF ~e.INSTANCE_URI.some
    THEN [state |-> "panicked",
          msg |-> "Expected INSTANCE_URI in the environment"]
    ELSE [state |-> "ready", api_key |-> e.API_KEY.val,
          instance_uri |-> e.INSTANCE_URI.val]

\* StatusCode::is_success
is_success(code) == 200 <= code /\ code <= 299

Unreadable == [t |-> "unreadable"]

\* The request get_media would send if it always used the stored key.
get_media_request_stored_key(self, override_api_key, video_data) ==
    [method |-> "POST", uri |-> self.instance_uri,
     headers |-> ("Content-Type" :> "application/json")
                 @@ ("Accept" :> "application/json")
                 @@ ("User-Agent" :> "Cobalt")
                 @@ ("Authorization" :> "Api-Key " \o self.api_key),
     body |-> Serialize(video_data)]

\* get_media up to send(): the key is the override when there is one and the
\* stored key otherwise; the body is the serialized request.
get_media_request(self, override_api_key, video_data) ==
    LET api_key == unwrap_or(override_api_key, self.api_key)
        serialized == Serialize(video_data)
    IN  [method |-> "POST", uri |-> self.instance_uri,
         headers |-> ("Content-Type" :> "application/json")
                     @@ ("Accept" :> "application/json")
                     @@ ("User-Agent" :> "Cobalt")
                     @@ ("Authorization" :> "Api-Key " \o api_key),
         body |-> serialized]

\* Response::text and Response::json::<Response> of a received response.
text(body) == IF body = Unreadable THEN Err("error reading body") ELSE Ok(body)
json(body) ==
    IF body = Unreadable THEN Err("error reading body") ELSE ParseResponse(body)

\* get_media decoding the body before it looks at the status code.
get_media_result_decode_first(x) ==
    IF x.transport = "failed"
    THEN Err([kind |-> "RequestError", msg |-> "Failed to send request"])
    ELSE IF json(x.body).ok THEN Ok(json(x.body).val)
    ELSE IF ~is_success(x.status)
    THEN Err([kind |-> "ApiError", status |-> x.status, text |-> text(x.body)])
    ELSE Err([kind |-> "DeserializationError",
              msg |-> "Failed to parse response"])

\* get_media after send(): the classification of the exchange x.
get_media_result(x) ==
    IF x.transport = "failed"
    THEN Err([kind |-> "RequestError", msg |-> "Failed to send request"])
    ELSE IF ~is_success(x.status)
    THEN Err([kind |-> "ApiError", status |-> x.status, text |-> text(x.body)])
    ELSE IF ~json(x.body).ok
    THEN Err([kind |-> "DeserializationError",
              msg |-> "Failed to parse response"])
    ELSE Ok(json(x.body).val)

\* status: both awaits propagate their error with `?`; the status code is
\* not looked at.
status_result(x) ==
    IF x.transport = "failed" THEN Err([kind |-> "reqwest", at |-> "send"])
    ELSE IF x.body = Unreadable \/ ~DeStatusResponse(x.body).ok
    THEN Err([kind |-> "reqwest", at |-> "json"])
    ELSE Ok(DeStatusResponse(x.body).val)

\* services returning the list without looking at its length.
services_result_unchecked(status) ==
    IF ~status.ok THEN status ELSE Ok(status.val.cobalt.services)

\* services, given the result of self.status().await
services_result(status) ==
    IF ~status.ok THEN status
    ELSE IF Len(status.val.cobalt.services) = 0
    THEN Err([kind |-> "str", msg |-> "No services found"])
    ELSE Ok(status.val.cobalt.services)

(***************************************************************************)
(* The exchanges the transport can produce                                 *)
(***************************************************************************)
RedirectBody ==
    MkObj([status |-> JStr("redirect"), url |-> JStr("http://m/file"),
           filename |-> JStr("file.mp4")])
ErrorBody ==
    MkObj([status |-> JStr("error"),
           error |-> MkObj([code |-> JStr("error.api.link.invalid")])])
StatusOnlyBody == MkObj([status |-> JStr("error")])

Failed == [transport |-> "failed"]
Exchange(code, body) == [transport |-> "ok", status |-> code, body |-> body]

MediaExchanges ==
    {Failed}
    \cup {Exchange(200, b) :
            b \in {Unreadable, RedirectBody, ErrorBody, StatusOnlyBody}}
    \cup {Exchange(500, b) : b \in {Unreadable, ErrorBody, StatusOnlyBody}}

ServiceLists ==
    {<<>>, <<"youtube">>, <<"youtube", "tiktok">>, <<"tiktok", "youtube">>}

JStrings(names) == JArr([i \in DOMAIN names |-> JStr(names[i])])

GitBody ==
    MkObj([branch |-> JStr("main"), commit |-> JStr("abc"),
           remote |-> JStr("imputnet/cobalt")])
CobaltBody(names) ==
    MkObj([version |-> JStr("10.1"), url |-> JStr("http://svc.local/"),
           startTime |-> JStr("1730000000000"), durationLimit |-> JNum(10800),
           services |-> JStrings(names)])
StatusBody(names) == MkObj([cobalt |-> CobaltBody(names), git |-> GitBody])

StatusExchanges ==
    {Failed}
    \cup {Exchange(200, b) :
            b \in {Unreadable, MkObj([cobalt |-> CobaltBody(<<"youtube">>)])}}
    \cup {Exchange(200, StatusBody(names)) : names \in ServiceLists}
    \cup {Exchange(503, StatusBody(<<"youtube">>))}

Overrides == {None, Some("k2")}
Requests ==
    {MediaRequestData([url |-> RStr("https://example.com/v")]),
     MediaRequestData([url |-> RStr("https://example.com/v"),
                       filename_style |-> RStr("basic"),
                       video_quality |-> RStr("1080")])}

(***************************************************************************)
(* The client's operations, one step per await                             *)
(***************************************************************************)
Idle == [pc |-> "idle"]

CanCall(c) == client.state = "ready" /\ calls[c].pc \in {"idle", "done"}

Awaiting(c, op) == calls[c].pc = "awaiting" /\ calls[c].op = op

\* The Lazy static is initialized on first use.
ClientNew ==
    /\ client.state = "uninit"
    /\ client' = New(env)
    /\ UNCHANGED <<env, calls, dest, dl, pure>>

GetMediaSend(c, override_api_key, video_data) ==
    /\ CanCall(c)
    /\ calls' = [calls EXCEPT ![c] =
                    [pc |-> "awaiting", op |-> "get_media",
                     override |-> override_api_key, data |-> video_data,
                     request |-> get_media_request(client, override_api_key,
                                                   video_data)]]
    /\ UNCHANGED <<env, client, dest, dl, pure>>

GetMediaReturn(c, x) ==
    /\ Awaiting(c, "get_media")
    /\ calls' = [calls EXCEPT ![c] =
                    [pc |-> "done", op |-> "get_media",
                     override |-> calls[c].override, data |-> calls[c].data,
                     request |-> calls[c].request, exchange |-> x,
                     result |-> get_media_result(x)]]
    /\ UNCHANGED <<env, client, dest, dl, pure>>

StatusSend(c) ==
    /\ CanCall(c)
    /\ calls' = [calls EXCEPT ![c] =
                    [pc |-> "awaiting", op |-> "status",
                     request |-> [method |-> "GET",
                                  uri |-> client.instance_uri]]]
    /\ UNCHANGED <<env, client, dest, dl, pure>>

StatusReturn(c, x) ==
    /\ Awaiting(c, "status")
    /\ calls' = [calls EXCEPT ![c] =
                    [pc |-> "done", op |-> "status",
                     request |-> calls[c].request, exchange |-> x,
                     result |-> status_result(x)]]
    /\ UNCHANGED <<env, client, dest, dl, pure>>

\* services awaits self.status()
ServicesSend(c) ==
    /\ CanCall(c)
    /\ calls' = [calls EXCEPT ![c] =
                    [pc |-> "awaiting", op |-> "services",
                     request |-> [method |-> "GET",
                                  uri |-> client.instance_uri]]]
    /\ UNCHANGED <<env, client, dest, dl, pure>>

ServicesReturn(c, x) ==
    /\ Awaiting(c, "services")
    /\ calls' = [calls EXCEPT ![c] =
                    [pc |-> "done", op |-> "services",
                     request |-> calls[c].request, exchange |-> x,
                     status |-> status_result(x),
                     result |-> services_result(status_result(x))]]
    /\ UNCHANGED <<env, client, dest, dl, pure>>

Init ==
    /\ env \in [API_KEY : {None, Some("k1")},
                INSTANCE_URI : {None, Some("http://svc.local")}]
    /\ client = [state |-> "uninit"]
    /\ calls = [c \in Callers |-> Idle]
    /\ dest = NoFile
    /\ dl = [pc |-> "idle"]
    /\ pure = PureIdle

Next ==
    \/ ClientNew
    \/ \E c \in Callers, k \in Overrides, d \in Requests : GetMediaSend(c, k, d)
    \/ \E c \in Callers, x \in MediaExchanges : GetMediaReturn(c, x)
    \/ \E c \in Callers : StatusSend(c)
    \/ \E c \in Callers, x \in StatusExchanges : StatusReturn(c, x)
    \/ \E c \in Callers : ServicesSend(c)
    \/ \E c \in Callers, x \in StatusExchanges : ServicesReturn(c, x)

Spec == Init /\ [][Next]_vars

(***************************************************************************)
(* Download streamer (Client::download)                                    *)
(***************************************************************************)
\* The largest Content-Length the server declares.
MaxLength == 3

Bytes == {0, 1}

\* The chunks a body stream can yield: non-empty byte strings.
Chunks == UNION {[1 .. n -> Bytes] : n \in 1 .. MaxLength}

RECURSIVE Flatten(_)
Flatten(chunks) ==
    IF chunks = <<>> THEN <<>> ELSE Head(chunks) \o Flatten(Tail(chunks))

Digits == <<"0", "1", "2", "3", "4", "5", "6", "7", "8", "9">>

DigitValue(ch) == (CHOOSE i \in DOMAIN Digits : Digits[i] = ch) - 1

IsDigit(ch) == \E i \in DOMAIN Digits : Digits[i] = ch

\* HeaderValue::to_str: an error unless every byte is visible ASCII.
to_str(value) ==
    IF \E i \in DOMAIN value : value[i] = "\\xE9"
    THEN Err([type |-> "ToStrError"])
    ELSE Ok(value)

RECURSIVE DecimalValue(_)
DecimalValue(digits) ==
    IF digits = <<>> THEN 0
    ELSE 10 * DecimalValue(SubSeq(digits, 1, Len(digits) - 1))
         + DigitValue(digits[Len(digits)])

\* str::parse::<u64>: an optional leading "+", then one or more digits.  The
\* header values of the model are far below 2^64.
parse_u64(str) ==
    LET digits == IF str # <<>> /\ Head(str) = "+" THEN Tail(str) ELSE str
    IN  IF digits = <<>> \/ \E i \in DOMAIN digits : ~IsDigit(digits[i])
        THEN Err([type |-> "ParseIntError"])
        ELSE Ok(DecimalValue(digits))

MissingLength ==
    [type |-> "str", msg |-> "Content-Length header is missing."]
ZeroLength ==
    [type |-> "str", msg |-> "File has a content length of 0 bytes."]
HttpFailure(code) ==
    [type |-> "str", msg |-> "Failed to download file: HTTP", status |-> code]

\* What a failed check returns and what it prints with eprintln!.
Rejected(e, lines) == [err |-> Some(e), stderr |-> lines]
Passed == [err |-> None, stderr |-> <<>>]

\* The checks with the status code looked at first.
download_preflight_status_first(response) ==
    IF ~is_success(response.status)
    THEN Rejected(HttpFailure(response.status),
                  <<"Failed to download file: HTTP">>)
    ELSE IF response.content_length.some
    THEN LET str == to_str(response.content_length.val)
         IN  IF ~str.ok THEN Rejected(str.err, <<>>)
             ELSE IF ~parse_u64(str.val).ok
             THEN Rejected(parse_u64(str.val).err, <<>>)
             ELSE IF parse_u64(str.val).val = 0
             THEN Rejected(ZeroLength,
                    <<"The file has a content length of 0 bytes. Something went wrong.">>)
             ELSE Passed
    ELSE Rejected(MissingLength,
           <<"Content-Length header is missing. Something went wrong.">>)

\* download between the response and File::create: the Content-Length
\* header, then the status code.
download_preflight(response) ==
    IF response.content_length.some
    THEN LET str == to_str(response.content_length.val)
         IN  IF ~str.ok THEN Rejected(str.err, <<>>)
             ELSE IF ~parse_u64(str.val).ok
             THEN Rejected(parse_u64(str.val).err, <<>>)
             ELSE IF parse_u64(str.val).val = 0
             THEN Rejected(ZeroLength,
                    <<"The file has a content length of 0 bytes. Something went wrong.">>)
             ELSE IF ~is_success(response.status)
             THEN Rejected(HttpFailure(response.status),
                           <<"Failed to download file: HTTP">>)
             ELSE Passed
    ELSE Rejected(MissingLength,
           <<"Content-Length header is missing. Something went wrong.">>)

\* Opening the destination for appending: existing content is kept.
File_open_append(file) == File(file.bytes)

\* File::create on a path that can be created: a new empty file, or the
\* existing file truncated.
File_create(file) == File(<<>>)

\* write_all: the first `written` bytes of buf reach the file; the call
\* succeeds when that is all of buf.
write_all(file, buf, written) == File(file.bytes \o SubSeq(buf, 1, written))

DlRecord(pc, before, response, chunks, failed, result, stderr) ==
    [pc |-> pc, before |-> before, response |-> response, chunks |-> chunks,
     failed |-> failed, result |-> result, stderr |-> stderr]

\* download from the response to the first poll of the body stream, with the
\* destination created before the checks.
download_begin_create_first(x, creatable, file, before) ==
    IF x.transport = "failed"
    THEN [dl |-> DlRecord("done", before, x, <<>>, None,
                          Err([type |-> "reqwest", at |-> "get"]), <<>>),
          dest |-> file]
    ELSE IF ~creatable
    THEN [dl |-> DlRecord("panicked", before, x, <<>>, None,
                          [panic |-> "Failed to create file"], <<>>),
          dest |-> file]
    ELSE LET checks == download_preflight(x)
         IN  IF checks.err.some
             THEN [dl |-> DlRecord("done", before, x, <<>>, None,
                                   Err(checks.err.val), checks.stderr),
                   dest |-> File_create(file)]
             ELSE [dl |-> DlRecord("streaming", before, x, <<>>, None, None,
                                   <<>>),
                   dest |-> File_create(file)]

\* download from the response to the first poll of the body stream: `?` on
\* the GET, the checks, then File::create(path).expect(..).
download_begin(x, creatable, file, before) ==
    IF x.transport = "failed"
    THEN [dl |-> DlRecord("done", before, x, <<>>, None,
                          Err([type |-> "reqwest", at |-> "get"]), <<>>),
          dest |-> file]
    ELSE LET checks == download_preflight(x)
         IN  IF checks.err.some
             THEN [dl |-> DlRecord("done", before, x, <<>>, None,
                                   Err(checks.err.val), checks.stderr),
                   dest |-> file]
             ELSE IF ~creatable
             THEN [dl |-> DlRecord("panicked", before, x, <<>>, None,
                                   [panic |-> "Failed to create file"], <<>>),
                   dest |-> file]
             ELSE [dl |-> DlRecord("streaming", before, x, <<>>, None, None,
                                   <<>>),
                   dest |-> File_create(file)]

\* The responses to the GET.
ContentLengths ==
    {None, Some(<<"0">>), Some(<<"0", "0">>), Some(<<"+", "2">>),
     Some(<<"a">>), Some(<<>>), Some(<<"-", "1">>), Some(<<"\\xE9">>)}
    \cup {Some(<<Digits[n + 1]>>) : n \in 1 .. MaxLength}

DownloadResponses ==
    {Failed}
    \cup {[transport |-> "ok", status |-> code, content_length |-> h] :
            code \in {200, 404}, h \in ContentLengths}

\* The length a response that passed the checks declares.
Declared(response) == parse_u64(to_str(response.content_length.val).val).val

Received == Len(Flatten(dl.chunks))

\* download(tunnel_link, path) is called: the GET is sent.
DownloadCall ==
    /\ dl.pc \in {"idle", "done", "panicked"}
    /\ dl' = [pc |-> "get", before |-> dest]
    /\ UNCHANGED <<env, client, calls, dest, pure>>

\* The GET completes; creatable says whether File::create can succeed.
DownloadBegin(x, creatable) ==
    /\ dl.pc = "get"
    /\ LET step == download_begin(x, creatable, dest, dl.before)
       IN  dl' = step.dl /\ dest' = step.dest
    /\ UNCHANGED <<env, client, calls, pure>>

\* The stream yields a chunk and write_all writes all of it.
DownloadChunk(chunk) ==
    /\ dl.pc = "streaming"
    /\ Received + Len(chunk) <= Declared(dl.response)
    /\ dest' = write_all(dest, chunk, Len(chunk))
    /\ dl' = [dl EXCEPT !.chunks = Append(@, chunk)]
    /\ UNCHANGED <<env, client, calls, pure>>

\* The stream yields a chunk and write_all fails after `written` bytes.
DownloadWriteFails(chunk, written) ==
    /\ dl.pc = "streaming"
    /\ Received + Len(chunk) <= Declared(dl.response)
    /\ written < Len(chunk)
    /\ dest' = write_all(dest, chunk, written)
    /\ dl' = [dl EXCEPT !.pc = "done", !.failed = Some(chunk),
                        !.result = Err([type |-> "io"])]
    /\ UNCHANGED <<env, client, calls, pure>>

\* The stream yields an error.
DownloadStreamFails ==
    /\ dl.pc = "streaming"
    /\ dl' = [dl EXCEPT !.pc = "done",
                        !.result = Err([type |-> "reqwest", at |-> "body"])]
    /\ UNCHANGED <<env, client, calls, dest, pure>>

\* The stream ends: every declared byte has arrived.
DownloadEnd ==
    /\ dl.pc = "streaming"
    /\ Received = Declared(dl.response)
    /\ dl' = [dl EXCEPT !.pc = "done", !.result = Ok("()")]
    /\ UNCHANGED <<env, client, calls, dest, pure>>

InitDownload ==
    /\ dest \in {NoFile, File(<<0, 1>>)}
    /\ dl = [pc |-> "idle"]
    /\ env = [API_KEY |-> None, INSTANCE_URI |-> None]
    /\ client = [state |-> "uninit"]
    /\ calls = [c \in {} |-> Idle]
    /\ pure = PureIdle

NextDownload ==
    \/ DownloadCall
    \/ \E x \in DownloadResponses, creatable \in BOOLEAN :
          DownloadBegin(x, creatable)
    \/ \E chunk \in Chunks : DownloadChunk(chunk)
    \/ \E chunk \in Chunks, written \in 0 .. MaxLength :
          DownloadWriteFails(chunk, written)
    \/ DownloadStreamFails
    \/ DownloadEnd

SpecDownload == InitDownload /\ [][NextDownload]_vars

(***************************************************************************)
(* Properties of the protocol client (under Spec)                          *)
(***************************************************************************)
Done(c, op) == calls[c].pc = "done" /\ calls[c].op = op

\* C1: get_media classifies every exchange by a fixed priority: transport
\* failure gives RequestError; otherwise a non-success status gives ApiError
\* carrying the status code, also when the body cannot be read and whatever
\* the body contains; otherwise a body that does not decode gives
\* DeserializationError; otherwise the result is Ok with the decoded Response.
C1_GetMediaClassifiesByPriority ==
    \A c \in Callers :
        Done(c, "get_media") =>
            LET x == calls[c].exchange
                r == calls[c].result
                decodes == x.body # Unreadable /\ ParseResponse(x.body).ok
            IN  /\ x.transport = "failed" =>
                     ~r.ok /\ r.err.kind = "RequestError"
                /\ (x.transport = "ok" /\ ~is_success(x.status)) =>
                     ~r.ok /\ r.err.kind = "ApiError"
                     /\ r.err.status = x.status
                /\ (x.transport = "ok" /\ is_success(x.status) /\ ~decodes) =>
                     ~r.ok /\ r.err.kind = "DeserializationError"
                /\ (x.transport = "ok" /\ is_success(x.status) /\ decodes) =>
                     r = Ok(ParseResponse(x.body).val)
                /\ ~r.ok =>
                     r.err.kind \in {"RequestError", "ApiError",
                                     "DeserializationError"}

\* HTTP 500 with a body that would decode as an Error response is an ApiError
\* carrying 500.
C1_Witness ==
    \E c \in Callers :
        /\ Done(c, "get_media")
        /\ calls[c].exchange = Exchange(500, ErrorBody)
        /\ ~calls[c].result.ok
        /\ calls[c].result.err.kind = "ApiError"
        /\ calls[c].result.err.status = 500

\* C2: every get_media call sends "Api-Key " followed by its own override
\* when it has one and by the stored credential otherwise, whatever the other
\* callers are doing, and the client's credential and endpoint stay as
\* constructed from the environment.
C2_EachCallSendsItsOwnCredential ==
    /\ \A c \in Callers :
          (calls[c].pc # "idle" /\ calls[c].op = "get_media") =>
              /\ calls[c].request.headers["Authorization"] =
                    "Api-Key " \o (IF calls[c].override.some
                                   THEN calls[c].override.val
                                   ELSE client.api_key)
              /\ calls[c].request.uri = client.instance_uri
    /\ client.state = "ready" =>
          /\ client.api_key = env.API_KEY.val
          /\ client.instance_uri = env.INSTANCE_URI.val

\* Two calls in flight at once, one with the override and one without.
C2_Witness ==
    \E c1, c2 \in Callers :
        /\ c1 # c2
        /\ calls[c1].pc = "awaiting" /\ calls[c1].op = "get_media"
        /\ calls[c2].pc = "awaiting" /\ calls[c2].op = "get_media"
        /\ calls[c1].override = Some("k2") /\ calls[c2].override = None
        /\ calls[c1].request.headers["Authorization"] = "Api-Key k2"
        /\ calls[c2].request.headers["Authorization"] = "Api-Key k1"
        /\ client.api_key = "k1"

\* The service names of a status body, as they stand in its JSON array.
NamesInBody(b) ==
    [i \in DOMAIN b.f.cobalt.f.services.items |->
        b.f.cobalt.f.services.items[i].s]

\* C5: services returns the "No services found" failure when the service
\* list of the status response is empty, the list unchanged when it is not
\* empty, and the failure of status when status fails; the empty-result
\* failure is returned only when status succeeded.
C5_ServicesReturnsListOrFailure ==
    \A c \in Callers :
        Done(c, "services") =>
            LET st == calls[c].status
                r == calls[c].result
                names == NamesInBody(calls[c].exchange.body)
                empty == Err([kind |-> "str", msg |-> "No services found"])
            IN  /\ (st.ok /\ names = <<>>) => r = empty
                /\ (st.ok /\ names # <<>>) => r = Ok(names)
                /\ ~st.ok => r = st
                /\ r = empty => st.ok

\* A status response that decodes and lists no service.
C5_Witness ==
    \E c \in Callers :
        /\ Done(c, "services")
        /\ calls[c].exchange = Exchange(200, StatusBody(<<>>))
        /\ calls[c].status.ok
        /\ calls[c].result = Err([kind |-> "str", msg |-> "No services found"])

(***************************************************************************)
(* Properties of the download streamer (under SpecDownload)                *)
(***************************************************************************)
Responded == dl.pc \in {"streaming", "done", "panicked"}

GotResponse == Responded /\ dl.response.transport = "ok"

HeaderMissing == ~dl.response.content_length.some

\* The header is there and reads as a number.
HeaderNumber ==
    /\ dl.response.content_length.some
    /\ to_str(dl.response.content_length.val).ok
    /\ parse_u64(dl.response.content_length.val).ok

DeclaresZero == HeaderNumber /\ Declared(dl.response) = 0

StatusRejected ==
    HeaderNumber /\ Declared(dl.response) > 0 /\ ~is_success(dl.response.status)

ChecksPassed ==
    /\ GotResponse
    /\ HeaderNumber /\ Declared(dl.response) > 0
    /\ is_success(dl.response.status)

\* The call returned an error after the destination was opened.
FailedMidStream ==
    /\ dl.pc = "done" /\ ChecksPassed /\ ~dl.result.ok

\* C6: when download fails its pre-flight checks (no Content-Length header,
\* a Content-Length of zero, or a non-success status code) the destination is
\* as it was before the call; the destination is created or truncated only
\* after all three checks have passed.
C6_PreflightFailureLeavesDestination ==
    /\ dl.pc = "get" => dest = dl.before
    /\ (GotResponse /\ (HeaderMissing \/ DeclaresZero
                        \/ ~is_success(dl.response.status))) =>
          /\ dl.pc = "done" /\ ~dl.result.ok
          /\ dest = dl.before
    /\ (dl.pc = "streaming" \/ (Responded /\ dest # dl.before)) => ChecksPassed

\* A call that found no Content-Length header, with the file of an earlier
\* download still in place.
C6_Witness ==
    /\ dl.pc = "done" /\ GotResponse /\ HeaderMissing
    /\ dl.before.exists /\ dl.before.bytes # <<>>
    /\ dest = dl.before

\* C7: the four integrity failures are told apart by the error returned, and
\* the checks run in the order header present, length not zero, status: a
\* Content-Length of 0 always gives the zero-length failure, a response
\* without Content-Length gives the missing-header failure whatever its
\* status code.
C7_IntegrityFailuresAreDistinct ==
    (dl.pc = "done" /\ GotResponse) =>
        /\ dl.result = Err(MissingLength) <=> HeaderMissing
        /\ dl.result = Err(ZeroLength) <=> DeclaresZero
        /\ dl.result = Err(HttpFailure(dl.response.status)) <=> StatusRejected
        /\ (\E code \in {200, 404} : dl.result = Err(HttpFailure(code)))
              => StatusRejected
        /\ (~dl.result.ok /\ dl.result.err.type \in {"io", "reqwest"})
              <=> FailedMidStream

\* No Content-Length header and a non-success status: the missing-header
\* failure.
C7_Witness ==
    /\ dl.pc = "done" /\ GotResponse
    /\ HeaderMissing /\ ~is_success(dl.response.status)
    /\ dl.result = Err(MissingLength)

\* C8: every failure of download is returned to the caller as an error
\* result and no call reaches a panic; in particular a failure to create the
\* destination file is returned, not raised.
C8_FailuresAreReturnedNotRaised == dl.pc # "panicked"

\* C10 as stated: after a successful call the destination holds exactly the
\* chunks of that call, in arrival order; after a call that failed
\* mid-stream it holds exactly the chunks written before the failure.
C10_DestinationHoldsExactlyTheChunks ==
    /\ (dl.pc = "done" /\ dl.result.ok) => dest = File(Flatten(dl.chunks))
    /\ FailedMidStream => dest = File(Flatten(dl.chunks))

\* C10, amended: after a successful call the destination holds exactly the
\* chunks of that call, in arrival order, and nothing of earlier calls; after
\* a call that failed mid-stream it holds the chunks written before the
\* failure, in order, followed by at most a leading part of the chunk whose
\* write failed, and nothing of earlier calls.
C10_DestinationHoldsChunksAndPartialWrite ==
    /\ (dl.pc = "done" /\ dl.result.ok) => dest = File(Flatten(dl.chunks))
    /\ FailedMidStream =>
          IF dl.failed.some
          THEN \E n \in 0 .. Len(dl.failed.val) - 1 :
                  dest = File(Flatten(dl.chunks)
                              \o SubSeq(dl.failed.val, 1, n))
          ELSE dest = File(Flatten(dl.chunks))

\* A second download over an existing file fails in write_all after one
\* chunk was written and part of the next.
C10_Witness ==
    /\ FailedMidStream
    /\ dl.before.exists /\ dl.before.bytes # <<>>
    /\ dl.chunks # <<>>
    /\ dl.failed.some
    /\ dest # File(Flatten(dl.chunks))

====
